---- MODULE Spec2Model ----
(***************************************************************************)
(* Model of Wrangle_OpenStreetMap/WrangleOpenStreetMapData.py: the tag-key *)
(* regular expressions, the street and postal-code rule tables, the update *)
(* functions, shape_element and the process_map driver that streams        *)
(* elements through shape_element into the output file.                    *)
(*                                                                         *)
(* Python strings are TLA+ strings; characters are one-character           *)
(* substrings.  Regular expressions are modelled by the matches they       *)
(* produce on the characters of the alphabet used by the inputs.           *)
(***************************************************************************)
EXTENDS Integers, Sequences, FiniteSets, TLC

VARIABLES
    file,            \* the elements iterparse will deliver, in file order
    parsed,          \* number of elements iterparse has delivered so far
    node,            \* shape_element: the dictionary being built
    address,         \* shape_element: the address dictionary
    pc,              \* position of process_map / shape_element
    idx,             \* position inside the current loop of shape_element
    err,             \* the exception that ended the pass ("" when none)
    data,            \* process_map: the list of documents returned
    sink,            \* process_map: the documents written to file_out
    street_in,       \* normalization run: the street string given
    name_to_update,  \* normalization run: the current value
    name_pass,       \* normalization run: number of update_name calls made
    name_round1,     \* normalization run: value after the first two calls
    key_file,        \* key count: the elements iterparse will deliver
    key_parsed,      \* key count: number of elements delivered so far
    keys,            \* key count: the four counters
    key_pc           \* key count: position of the counting process_map

vars == <<file, parsed, node, address, pc, idx, err, data, sink,
          street_in, name_to_update, name_pass, name_round1,
          key_file, key_parsed, keys, key_pc>>

pipeVars == <<file, parsed, node, address, pc, idx, err, data, sink>>

nameVars == <<street_in, name_to_update, name_pass, name_round1>>

keyVars == <<key_file, key_parsed, keys, key_pc>>

(***************************************************************************)
(* Bounds of the model.                                                    *)
(***************************************************************************)
MaxPieces == 3

MaxTags == 2

MaxAttrs == 2

MaxNds == 2

MaxElems == 3

MaxKeys == 2

(***************************************************************************)
(* Characters and character classes of Python's re module (byte patterns,  *)
(* no UNICODE flag: \w is [a-zA-Z0-9_], \s is [ \t\n\r\f\v]).              *)
(***************************************************************************)
Ch(s, i) == SubSeq(s, i, i)

LowerLetters ==
    {"a", "b", "c", "d", "e", "f", "g", "h", "i", "j", "k", "l", "m",
     "n", "o", "p", "q", "r", "s", "t", "u", "v", "w", "x", "y", "z"}

UpperLetters ==
    {"A", "B", "C", "D", "E", "F", "G", "H", "I", "J", "K", "L", "M",
     "N", "O", "P", "Q", "R", "S", "T", "U", "V", "W", "X", "Y", "Z"}

Digits == {"0", "1", "2", "3", "4", "5", "6", "7", "8", "9"}

WordChars == LowerLetters \cup UpperLetters \cup Digits \cup {"_"}

SpaceChars == {" ", "\t", "\n", "\r"}

IsWordAt(s, i) == i >= 1 /\ i <= Len(s) /\ Ch(s, i) \in WordChars

\* \b at the position just before character i (i in 1..Len(s)+1)
WordBoundary(s, i) == IsWordAt(s, i - 1) # IsWordAt(s, i)

\* $ without MULTILINE: at the end, or just before a newline that ends s.
\* e is the index of the last character matched.
AtDollar(s, e) == e = Len(s) \/ (e = Len(s) - 1 /\ Ch(s, Len(s)) = "\n")

(***************************************************************************)
(* lower, lower_colon and problemchars.                                    *)
(***************************************************************************)
LowerKeyChars == LowerLetters \cup {"_"}

AllLower(s, a, b) == \A i \in a..b : Ch(s, i) \in LowerKeyChars

\* the index of the last character before $, for each way $ can match
DollarEnds(s) == {e \in 0..Len(s) : AtDollar(s, e)}

\* lower = re.compile(r'^([a-z]|_)*$')
lower_search(k) == \E e \in DollarEnds(k) : AllLower(k, 1, e)

\* lower_colon = re.compile(r'^([a-z]|_)*:([a-z]|_)*$')
lower_colon_search(k) ==
    \E e \in DollarEnds(k) : \E c \in 1..e :
        /\ Ch(k, c) = ":"
        /\ AllLower(k, 1, c - 1)
        /\ AllLower(k, c + 1, e)

\* the character class of problemchars
ProblemCharsNoDot ==
    {"=", "+", "/", "&", "<", ">", ";", "'", "\"", "?", "%", "#", "$",
     "@", ",", " ", "\t", "\r", "\n"}

ProblemChars ==
    {"=", "+", "/", "&", "<", ">", ";", "'", "\"", "?", "%", "#", "$",
     "@", ",", ".", " ", "\t", "\r", "\n"}

\* problemchars = re.compile(r'[=\+/&<>;\'"\?%#$@\,\. \t\r\n]')
problemchars_search(k) == \E i \in 1..Len(k) : Ch(k, i) \in ProblemChars

\* str.find(':') == -1
HasColon(k) == \E i \in 1..Len(k) : Ch(k, i) = ":"

\* tag.attrib['k'].find('addr') == 0
StartsWithAddr(k) == Len(k) >= 4 /\ SubSeq(k, 1, 4) = "addr"

\* tag.attrib['k'].split(':', 1)[1]: the part after the first colon
FirstColon(k) == CHOOSE c \in 1..Len(k) :
                    Ch(k, c) = ":" /\ \A j \in 1..(c - 1) : Ch(k, j) # ":"

SubAttr(k) == SubSeq(k, FirstColon(k) + 1, Len(k))

(***************************************************************************)
(* Rule tables.                                                            *)
(***************************************************************************)
expected_names ==
    {"Street", "Avenue", "Boulevard", "Drive", "Court", "Place", "Square",
     "Lane", "Road", "Trail", "Parkway", "Commons", "Circle", "Expressway",
     "Highway", "Loop", "Real", "Row", "Terrace", "Walk", "Way", "Plaza",
     "0.1", "7.1", "Hamilton", "Alameda", "Auzoa", "Barcelona", "East",
     "Franklin", "Hill", "Luna", "Madrid", "Marino", "Napoli", "Ogrodowa",
     "Oro", "Palamos", "Paviso", "Portofino", "Presada", "Seville",
     "Sorrento", "Volante", "West", "Winchester", "robles"}

\* the non-ASCII entries are written with the escapes of the source text
not_to_import_list ==
    {"Brunnenweg", "B\\xe4derstra\\xdfe", "Cergowska", "Jana Paw\\u0142a II",
     "Klosterstra\\xdfe", "Marii Konopnickiej", "S\\u0142owacka"}

\* a dictionary given as a set of <<key, value>> pairs
DictOf(pairs) ==
    [k \in {p[1] : p \in pairs} |-> (CHOOSE p \in pairs : p[1] = k)[2]]

mapping_street_type_abbrev ==
    DictOf({<<"Ave", "Avenue">>, <<"ave", "Avenue">>,
            <<"Bascom", "Bascom Ave">>, <<"Bellomy", "Bellomy Street">>,
            <<"BLVD", "Boulevard">>, <<"Blvd", "Boulevard">>,
            <<"Blvd.", "Boulevard">>, <<"Cir", "Circle">>,
            <<"Ct", "Court">>, <<"Dr", "Drive">>, <<"Hill", "Hill Road">>,
            <<"Hwy", "Highway">>, <<"Julian", "Julian Street">>,
            <<"Ln", "Lane">>, <<"Pkwy", "Parkway">>,
            <<"robles", "Robles">>, <<"Rd", "Road">>, <<"Rd.", "Road">>,
            <<"Sq", "Square">>, <<"St", "Street">>, <<"St.", "Street">>,
            <<"street", "Street">>})

mapping_street_type ==
    DictOf({<<"Ave", "Avenue">>, <<"ave", "Avenue">>,
            <<"Bascom", "Bascom Avenue">>, <<"Bellomy", "Bellomy Street">>,
            <<"BLVD", "Boulevard">>, <<"Blvd", "Boulevard">>,
            <<"Blvd.", "Boulevard">>, <<"Cir", "Circle">>,
            <<"Ct", "Court">>, <<"Dr", "Drive">>, <<"Hill", "Hill Road">>,
            <<"Hwy", "Highway">>, <<"Julian", "Julian Street">>,
            <<"Ln", "Lane">>, <<"Pkwy", "Parkway">>,
            <<"robles", "Robles">>, <<"Rd", "Road">>, <<"Rd.", "Road">>,
            <<"Sq", "Square">>, <<"St", "Street">>, <<"St.", "Street">>,
            <<"street", "Street">>})

expected_directions == {"North", "South", "West", "East"}

mapping_street_direction ==
    DictOf({<<"E", "East">>, <<"E.", "East">>, <<"N", "North">>,
            <<"N.", "North">>, <<"S", "South">>, <<"S.", "South">>,
            <<"W", "West">>, <<"W.", "West">>})

(***************************************************************************)
(* A regular expression search yields a match [found, from, to]: the       *)
(* matched text is SubSeq(s, from, to).                                    *)
(***************************************************************************)
NoMatch == [found |-> FALSE, from |-> 0, to |-> 0]

Match(a, b) == [found |-> TRUE, from |-> a, to |-> b]

Group(s, m) == SubSeq(s, m.from, m.to)

\* street_type_re = re.compile(r'\b\S+\.?$', re.IGNORECASE)
\* \S+ must run up to $, so the match is the leftmost word boundary of
\* the last run of non-space characters, up to the end of that run.
street_type_re(s) ==
    LET starts == {i \in 1..Len(s) :
                     /\ WordBoundary(s, i)
                     /\ \E e \in i..Len(s) :
                          /\ AtDollar(s, e)
                          /\ \A j \in i..e : Ch(s, j) \notin SpaceChars}
    IN  IF starts = {} THEN NoMatch
        ELSE LET i == CHOOSE a \in starts : \A b \in starts : a <= b
                 e == CHOOSE b \in i..Len(s) :
                        /\ AtDollar(s, b)
                        /\ \A j \in i..b : Ch(s, j) \notin SpaceChars
             IN  Match(i, e)

\* the same pattern without the \b after the letter
street_direction_re_no_boundary(s) ==
    IF Len(s) >= 1 /\ Ch(s, 1) \in {"N", "S", "E", "W", "n", "s", "e", "w"}
    THEN IF Len(s) >= 2 /\ Ch(s, 2) = "." THEN Match(1, 2) ELSE Match(1, 1)
    ELSE NoMatch

\* street_direction_re = re.compile(r'^[NSEW]\b\.?', re.IGNORECASE)
street_direction_re(s) ==
    IF /\ Len(s) >= 1
       /\ Ch(s, 1) \in {"N", "S", "E", "W", "n", "s", "e", "w"}
       /\ WordBoundary(s, 2)
    THEN IF Len(s) >= 2 /\ Ch(s, 2) = "." THEN Match(1, 2) ELSE Match(1, 1)
    ELSE NoMatch

\* re.sub(re_string, repl, s): both patterns match at most once in s
ReSub(s, m, repl) ==
    SubSeq(s, 1, m.from - 1) \o repl \o SubSeq(s, m.to + 1, Len(s))

(***************************************************************************)
(* The result of a call that may raise: err names the exception.           *)
(***************************************************************************)
Ok(v) == [err |-> "", val |-> v]

Raise(e) == [err |-> e, val |-> ""]

\* update_name(name_to_update, mapping, re_string, expected_strings),
\* given the match m of re_string.search(name_to_update)
update_name(name, mapping, m, expected_strings) ==
    IF m.found /\ Group(name, m) \notin expected_strings
    THEN IF Group(name, m) \in DOMAIN mapping
         THEN Ok(ReSub(name, m, mapping[Group(name, m)]))
         ELSE Raise("KeyError")
    ELSE Ok(name)

UpdateStreetType(name) ==
    update_name(name, mapping_street_type, street_type_re(name),
                expected_names)

UpdateStreetDirection(name) ==
    update_name(name, mapping_street_direction, street_direction_re(name),
                expected_directions)

\* non-overlapping runs of five digits, left to right, from position i
RECURSIVE FindAll5(_, _)
FindAll5(s, i) ==
    IF i + 4 > Len(s) THEN <<>>
    ELSE IF \A j \in i..(i + 4) : Ch(s, j) \in Digits
         THEN <<SubSeq(s, i, i + 4)>> \o FindAll5(s, i + 5)
         ELSE FindAll5(s, i + 1)

\* Python values stored in the created and address dictionaries
PStr(s) == [t |-> "str", s |-> s, l |-> <<>>]

PList(l) == [t |-> "list", s |-> "", l |-> l]

\* update_zip_code(zip_in): "" or the list re.findall returns
update_zip_code(zip_in) ==
    IF FindAll5(zip_in, 1) # <<>> THEN PList(FindAll5(zip_in, 1))
    ELSE PStr("")

(***************************************************************************)
(* Python values.  A dictionary is a function from its keys; the values of *)
(* the top-level document carry one field per kind of value so that any    *)
(* two of them can be compared.                                            *)
(***************************************************************************)
EmptyDict == <<>>

Put(d, k, v) == [x \in (DOMAIN d) \cup {k} |-> IF x = k THEN v ELSE d[x]]

PNone == [t |-> "None", num |-> 0, scale |-> 0]

\* a float: num / 10^scale, without trailing zeros in the fraction
PFloat(n, sc) == [t |-> "float", num |-> n, scale |-> sc]

VStr(s) == [t |-> "str", s |-> s, l |-> <<>>, p |-> <<>>, d |-> EmptyDict]

\* a list of strings (node_refs)
VList(l) == [t |-> "list", s |-> "", l |-> l, p |-> <<>>, d |-> EmptyDict]

\* a list of floats or None (pos)
VPos(p) == [t |-> "list", s |-> "", l |-> <<>>, p |-> p, d |-> EmptyDict]

VDict(d) == [t |-> "dict", s |-> "", l |-> <<>>, p |-> <<>>, d |-> d]

(***************************************************************************)
(* float(x) on the decimal notation: optional surrounding whitespace, an   *)
(* optional sign, digits with at most one point.  The attribute values of  *)
(* the model use no exponent, "inf" or "nan".                              *)
(***************************************************************************)
RECURSIVE LStrip(_)
LStrip(s) ==
    IF Len(s) > 0 /\ Ch(s, 1) \in SpaceChars
    THEN LStrip(SubSeq(s, 2, Len(s))) ELSE s

RECURSIVE RStrip(_)
RStrip(s) ==
    IF Len(s) > 0 /\ Ch(s, Len(s)) \in SpaceChars
    THEN RStrip(SubSeq(s, 1, Len(s) - 1)) ELSE s

Unsigned(s) ==
    IF Len(s) > 0 /\ Ch(s, 1) \in {"+", "-"} THEN SubSeq(s, 2, Len(s)) ELSE s

IsDecimal(s) ==
    LET u == Unsigned(RStrip(LStrip(s)))
    IN  /\ \A i \in 1..Len(u) : Ch(u, i) \in Digits \cup {"."}
        /\ Cardinality({i \in 1..Len(u) : Ch(u, i) = "."}) <= 1
        /\ \E i \in 1..Len(u) : Ch(u, i) \in Digits

DigitVal(c) == CHOOSE n \in 0..9 : Ch("0123456789", n + 1) = c

\* the digits of u read as one integer, the point left out
RECURSIVE DigitsNum(_, _)
DigitsNum(u, acc) ==
    IF u = "" THEN acc
    ELSE IF Ch(u, 1) = "." THEN DigitsNum(SubSeq(u, 2, Len(u)), acc)
    ELSE DigitsNum(SubSeq(u, 2, Len(u)), 10 * acc + DigitVal(Ch(u, 1)))

PointAt(u) == IF \E i \in 1..Len(u) : Ch(u, i) = "."
              THEN CHOOSE i \in 1..Len(u) : Ch(u, i) = "."
              ELSE Len(u) + 1

RECURSIVE Normalize(_, _)
Normalize(n, sc) ==
    IF sc > 0 /\ n % 10 = 0 THEN Normalize(n \div 10, sc - 1)
    ELSE PFloat(n, IF n = 0 THEN 0 ELSE sc)

\* float(x) for an x with IsDecimal(x)
ParseFloat(s) ==
    LET t == RStrip(LStrip(s))
        u == Unsigned(t)
        n == DigitsNum(u, 0)
        sc == IF PointAt(u) > Len(u) THEN 0 ELSE Len(u) - PointAt(u)
    IN  Normalize(IF Ch(t, 1) = "-" THEN 0 - n ELSE n, sc)

(***************************************************************************)
(* shape_element, one loop iteration at a time.                            *)
(***************************************************************************)
CREATED == {"version", "changeset", "timestamp", "user", "uid"}

\* the exception raised by the attribute loop body for attribute a = v
\* on the dictionary nd ("" when it raises none)
AttrError(nd, a, v) ==
    IF a \in CREATED
    THEN IF "created" \in DOMAIN nd /\ nd["created"].t # "dict"
         THEN "TypeError" ELSE ""
    ELSE IF a \in {"lat", "lon"}
    THEN IF ~IsDecimal(v) THEN "ValueError"
         ELSE IF "pos" \in DOMAIN nd /\ nd["pos"].t # "list"
         THEN "TypeError" ELSE ""
    ELSE ""

\* node after the attribute loop body for attribute a = v
ShapeAttrib(nd, a, v) ==
    IF a \in CREATED
    THEN LET c == IF "created" \in DOMAIN nd THEN nd["created"].d
                  ELSE EmptyDict
         IN  Put(nd, "created", VDict(Put(c, a, PStr(v))))
    ELSE IF a \in {"lat", "lon"}
    THEN LET p == IF "pos" \in DOMAIN nd THEN nd["pos"].p
                  ELSE <<PNone, PNone>>
             q == IF a = "lat" THEN <<ParseFloat(v), p[2]>>
                  ELSE <<p[1], ParseFloat(v)>>
         IN  Put(nd, "pos", VPos(q))
    ELSE Put(nd, a, VStr(v))

\* the street values shape_element handles by hand
IsOverride(v) ==
    v \in {"Stewart Drive Suite #1", "West Evelyn Avenue Suite #114",
           "Zanker Rd., San Jose, CA", "Zanker Road, San Jose, CA",
           "1425 E Dunne Ave"}

ApplyOverride(ad, v) ==
    IF v = "Stewart Drive Suite #1"
    THEN Put(Put(ad, "street", PStr("Stewart Drive")),
             "unit", PStr("Suite #1"))
    ELSE IF v = "West Evelyn Avenue Suite #114"
    THEN Put(Put(ad, "street", PStr("West Evelyn Avenue")),
             "unit", PStr("Suite #114"))
    ELSE IF v = "Zanker Rd., San Jose, CA" \/ v = "Zanker Road, San Jose, CA"
    THEN Put(Put(Put(ad, "street", PStr("Zanker Road")),
                 "city", PStr("San Jose")), "state", PStr("CA"))
    ELSE Put(Put(ad, "street", PStr("East Dunne Avenue")),
             "housenumber", PStr("1425"))

\* new_name_1 and new_name_2 of shape_element
NormalizeStreet(v) ==
    LET new_name_1 == UpdateStreetType(v)
    IN  IF new_name_1.err # "" THEN new_name_1
        ELSE UpdateStreetDirection(new_name_1.val)

\* the street-name branch without the cases handled by hand
ShapeStreetNoOverride(ad, sub, v) ==
    IF v \in not_to_import_list THEN ad
    ELSE Put(ad, sub, PStr(NormalizeStreet(v).val))

\* the street-name branch: address after an addr:street tag of value v
ShapeStreet(ad, sub, v) ==
    IF v \in not_to_import_list THEN ad
    ELSE IF IsOverride(v) THEN ApplyOverride(ad, v)
    ELSE Put(ad, sub, PStr(NormalizeStreet(v).val))

is_street_name(k) == k = "addr:street"

is_postal_code(k) == k = "addr:postcode"

IsAddrTag(k) == lower_colon_search(k) /\ StartsWithAddr(k)

\* the exception raised by the tag loop body ("" when it raises none)
TagError(k, v) ==
    IF /\ ~problemchars_search(k)
       /\ IsAddrTag(k)
       /\ is_street_name(k)
       /\ v \notin not_to_import_list
       /\ ~IsOverride(v)
    THEN NormalizeStreet(v).err
    ELSE ""

\* address after the tag loop body for the tag k = v
ShapeTagAddress(ad, k, v) ==
    IF problemchars_search(k) \/ ~IsAddrTag(k) THEN ad
    ELSE IF is_street_name(k) THEN ShapeStreet(ad, SubAttr(k), v)
    ELSE IF is_postal_code(k) THEN Put(ad, SubAttr(k), update_zip_code(v))
    ELSE Put(ad, SubAttr(k), PStr(v))

\* the tag loop body with a plain "else" in place of the no-colon test
ShapeTagNodeStoreAll(nd, ad, k, v) ==
    IF problemchars_search(k) THEN nd
    ELSE LET ad1 == ShapeTagAddress(ad, k, v)
             nd1 == IF lower_colon_search(k)
                    THEN IF StartsWithAddr(k)
                         THEN IF "address" \in DOMAIN nd THEN nd
                              ELSE Put(nd, "address", VDict(EmptyDict))
                         ELSE Put(nd, k, VStr(v))
                    ELSE Put(nd, k, VStr(v))
         IN  IF ad1 # EmptyDict THEN Put(nd1, "address", VDict(ad1))
             ELSE nd1

\* node after the tag loop body for the tag k = v
ShapeTagNode(nd, ad, k, v) ==
    IF problemchars_search(k) THEN nd
    ELSE LET ad1 == ShapeTagAddress(ad, k, v)
             nd1 == IF lower_colon_search(k)
                    THEN IF StartsWithAddr(k)
                         THEN IF "address" \in DOMAIN nd THEN nd
                              ELSE Put(nd, "address", VDict(EmptyDict))
                         ELSE Put(nd, k, VStr(v))
                    ELSE IF ~HasColon(k) THEN Put(nd, k, VStr(v))
                    ELSE nd
         IN  IF ad1 # EmptyDict THEN Put(nd1, "address", VDict(ad1))
             ELSE nd1

\* the exception raised by the nd loop body ("" when it raises none)
NdError(nd) ==
    IF "node_refs" \in DOMAIN nd /\ nd["node_refs"].t # "list"
    THEN "AttributeError" ELSE ""

\* node after the nd loop body for the reference ref
ShapeNdRef(nd, ref) ==
    LET refs == IF "node_refs" \in DOMAIN nd THEN nd["node_refs"].l
                ELSE <<>>
    IN  Put(nd, "node_refs", VList(Append(refs, ref)))

(***************************************************************************)
(* The input files.  An element is [tag, attrib, tags, nds]: attrib is the *)
(* sequence of <<name, value>> pairs in the order the attribute dictionary *)
(* iterates, tags the nested tag children [k, v] and nds the references of *)
(* the nested nd children, both in document order.                         *)
(***************************************************************************)
Element(t, a, ts, n) == [tag |-> t, attrib |-> a, tags |-> ts, nds |-> n]

Tag(k, v) == [k |-> k, v |-> v]

StreetValues ==
    {"Main St", "N 1st Street", "Lincoln Avenue", "Oak Grove",
     "Brunnenweg", "Stewart Drive Suite #1",
     "West Evelyn Avenue Suite #114", "Zanker Rd., San Jose, CA",
     "Zanker Road, San Jose, CA", "1425 E Dunne Ave"}

ZipValues == {"95014", "CA 95014-1234", "95014;95126", "CA", "9501"}

TagMenu ==
    {Tag("addr:street", v) : v \in StreetValues}
    \cup {Tag("addr:postcode", v) : v \in ZipValues}
    \cup {Tag("addr:city", "San Jose"), Tag("name", "Cafe"),
          Tag("address", "1 Main St"), Tag("type", "multipolygon"),
          Tag("created", "2013"), Tag("pos", "left"),
          Tag("node_refs", "none"),
          Tag("gnis:county_name", "Santa Clara"),
          Tag("name.en", "Cafe"), Tag("addr:city\n", "San Jose"),
          Tag("addr:full address", "1 Main St"),
          Tag("FIXME", "check"), Tag("name_1", "Alt"),
          Tag("addr:street:name", "Main"),
          Tag("tiger:name_base_1", "Main")}

TagSeqs == UNION {[1..n -> TagMenu] : n \in 0..MaxTags}

AttrMenu ==
    {<<"lat", "37.3">>, <<"lat", "abc">>, <<"lat", " 37.30">>,
     <<"lon", "-121.9">>, <<"lon", "">>,
     <<"id", "1">>, <<"uid", "99">>, <<"version", "2">>,
     <<"type", "x">>}

\* attribute names are distinct within an element
AttrSeqs ==
    UNION {{a \in [1..n -> AttrMenu] :
              \A i, j \in 1..n : i # j => a[i][1] # a[j][1]} :
           n \in 0..MaxAttrs}

NdSeqs == UNION {[1..n -> {"10", "20"}] : n \in 0..MaxNds}

ExampleAttrib ==
    <<<<"id", "1">>, <<"lat", "37.3">>, <<"lon", "-121.9">>,
      <<"uid", "99">>, <<"user", "alice">>, <<"version", "2">>,
      <<"changeset", "5">>, <<"timestamp", "2020-01-01T00:00:00Z">>>>

\* one element with many tag combinations
TagFiles ==
    {<<Element("node", a, ts, <<>>)>> :
        a \in {<<>>, ExampleAttrib}, ts \in TagSeqs}

\* one element with many attribute and nd combinations
AttrFiles ==
    {<<Element(t, a, ts, n)>> :
        t \in {"node", "way"}, a \in AttrSeqs,
        ts \in {<<>>, <<Tag("name", "Cafe")>>, <<Tag("node_refs", "none")>>},
        n \in NdSeqs}

StreamElements ==
    {Element("node", ExampleAttrib, <<Tag("addr:street", "Main St")>>, <<>>),
     Element("node", <<<<"id", "2">>, <<"lat", "abc">>, <<"lon", "1">>>>,
             <<>>, <<>>),
     Element("node", <<<<"id", "3">>>>,
             <<Tag("addr:street", "Oak Grove")>>, <<>>),
     Element("way", <<<<"id", "4">>>>, <<Tag("highway", "residential")>>,
             <<"10", "20">>),
     Element("relation", <<<<"id", "5">>>>, <<Tag("type", "route")>>, <<>>),
     Element("tag", <<<<"k", "name">>, <<"v", "Cafe">>>>, <<>>, <<>>)}

\* several elements in a stream
StreamFiles == UNION {[1..n -> StreamElements] : n \in 0..MaxElems}

Files == TagFiles \cup AttrFiles \cup StreamFiles

(***************************************************************************)
(* process_map: the streaming pass.                                        *)
(***************************************************************************)
\* the element iterparse delivered last
element == file[parsed]

\* where shape_element continues after i iterations of the loop ph
After(e, ph, i) ==
    IF ph = "attrs" /\ i < Len(e.attrib) THEN "attrs"
    ELSE IF ph \in {"attrs", "tags"}
            /\ (IF ph = "tags" THEN i ELSE 0) < Len(e.tags) THEN "tags"
    ELSE IF (IF ph = "nds" THEN i ELSE 0) < Len(e.nds) THEN "nds"
    ELSE "return"

Init ==
    /\ file \in Files
    /\ parsed = 0
    /\ node = EmptyDict
    /\ address = EmptyDict
    /\ pc = "parse"
    /\ idx = 0
    /\ err = ""
    /\ data = <<>>
    /\ sink = <<>>
    /\ street_in = "" /\ name_to_update = Ok("") /\ name_pass = 0
    /\ name_round1 = Ok("")
    /\ key_file = <<>> /\ key_parsed = 0 /\ key_pc = "idle"
    /\ keys = [lower |-> 0, lower_colon |-> 0, problemchars |-> 0, other |-> 0]

\* iterparse delivers a node or way: shape_element starts on it
ParseElement ==
    /\ pc = "parse"
    /\ parsed < Len(file)
    /\ file[parsed + 1].tag \in {"node", "way"}
    /\ parsed' = parsed + 1
    /\ node' = Put(EmptyDict, "type", VStr(file[parsed + 1].tag))
    /\ address' = EmptyDict
    /\ pc' = After(file[parsed + 1], "attrs", 0)
    /\ idx' = 0
    /\ UNCHANGED <<file, err, data, sink>>
    /\ UNCHANGED nameVars
    /\ UNCHANGED keyVars

\* iterparse delivers another element: shape_element returns None
SkipElement ==
    /\ pc = "parse"
    /\ parsed < Len(file)
    /\ file[parsed + 1].tag \notin {"node", "way"}
    /\ parsed' = parsed + 1
    /\ UNCHANGED <<file, node, address, pc, idx, err, data, sink>>
    /\ UNCHANGED nameVars
    /\ UNCHANGED keyVars

\* one iteration of "for a in element.attrib"
ShapeAttr ==
    /\ pc = "attrs"
    /\ LET a == element.attrib[idx + 1][1]
           v == element.attrib[idx + 1][2]
       IN  IF AttrError(node, a, v) # ""
           THEN /\ pc' = "raised"
                /\ err' = AttrError(node, a, v)
                /\ UNCHANGED <<node, idx>>
           ELSE /\ node' = ShapeAttrib(node, a, v)
                /\ idx' = IF After(element, "attrs", idx + 1) = "attrs"
                          THEN idx + 1 ELSE 0
                /\ pc' = After(element, "attrs", idx + 1)
                /\ err' = err
    /\ UNCHANGED <<file, parsed, address, data, sink>>
    /\ UNCHANGED nameVars
    /\ UNCHANGED keyVars

\* one iteration of "for tag in element.iter('tag')"
ShapeTag ==
    /\ pc = "tags"
    /\ LET k == element.tags[idx + 1].k
           v == element.tags[idx + 1].v
       IN  IF TagError(k, v) # ""
           THEN /\ pc' = "raised"
                /\ err' = TagError(k, v)
                /\ UNCHANGED <<node, address, idx>>
           ELSE /\ address' = ShapeTagAddress(address, k, v)
                /\ node' = ShapeTagNode(node, address, k, v)
                /\ idx' = IF After(element, "tags", idx + 1) = "tags"
                          THEN idx + 1 ELSE 0
                /\ pc' = After(element, "tags", idx + 1)
                /\ err' = err
    /\ UNCHANGED <<file, parsed, data, sink>>
    /\ UNCHANGED nameVars
    /\ UNCHANGED keyVars

\* one iteration of "for nd in element.iter('nd')"
ShapeNd ==
    /\ pc = "nds"
    /\ IF NdError(node) # ""
       THEN /\ pc' = "raised"
            /\ err' = NdError(node)
            /\ UNCHANGED <<node, idx>>
       ELSE /\ node' = ShapeNdRef(node, element.nds[idx + 1])
            /\ idx' = IF After(element, "nds", idx + 1) = "nds"
                      THEN idx + 1 ELSE 0
            /\ pc' = After(element, "nds", idx + 1)
            /\ err' = err
    /\ UNCHANGED <<file, parsed, address, data, sink>>
    /\ UNCHANGED nameVars
    /\ UNCHANGED keyVars

\* shape_element returns node; process_map appends it and writes it
EmitDocument ==
    /\ pc = "return"
    /\ data' = Append(data, node)
    /\ sink' = Append(sink, node)
    /\ pc' = "parse"
    /\ UNCHANGED <<file, parsed, node, address, idx, err>>
    /\ UNCHANGED nameVars
    /\ UNCHANGED keyVars

\* iterparse is exhausted: process_map returns data
EndOfFile ==
    /\ pc = "parse"
    /\ parsed = Len(file)
    /\ pc' = "done"
    /\ UNCHANGED <<file, parsed, node, address, idx, err, data, sink>>
    /\ UNCHANGED nameVars
    /\ UNCHANGED keyVars

Next ==
    \/ ParseElement
    \/ SkipElement
    \/ ShapeAttr
    \/ ShapeTag
    \/ ShapeNd
    \/ EmitDocument
    \/ EndOfFile

Spec == Init /\ [][Next]_vars

(***************************************************************************)
(* Normalization runs: update_name applied to a street string, street type *)
(* first and direction second, as shape_element does, and then once more   *)
(* to the value it produced.                                               *)
(***************************************************************************)
Pieces == {"N", "E.", "s", "Main", "St", "St.", "Ave", "Avenue", "Bascom",
           "Hill", "robles", "Oak", " ", "\n", ".", "#"}

RECURSIVE Concat(_)
Concat(ps) == IF ps = <<>> THEN "" ELSE Head(ps) \o Concat(Tail(ps))

PieceSeqs == UNION {[1..n -> Pieces] : n \in 0..MaxPieces}

StreetStrings == {Concat(ps) : ps \in PieceSeqs}

InitName ==
    /\ street_in \in StreetStrings
    /\ name_to_update = Ok(street_in)
    /\ name_pass = 0
    /\ name_round1 = Ok("")
    /\ file = <<>> /\ parsed = 0 /\ node = <<>> /\ address = <<>>
    /\ pc = "idle" /\ idx = 0 /\ err = "" /\ data = <<>> /\ sink = <<>>
    /\ key_file = <<>> /\ key_parsed = 0 /\ key_pc = "idle"
    /\ keys = [lower |-> 0, lower_colon |-> 0, problemchars |-> 0, other |-> 0]

TypePass ==
    /\ name_pass \in {0, 2}
    /\ name_to_update.err = ""
    /\ name_to_update' = UpdateStreetType(name_to_update.val)
    /\ name_pass' = name_pass + 1
    /\ UNCHANGED <<street_in, name_round1>>
    /\ UNCHANGED pipeVars
    /\ UNCHANGED keyVars

DirectionPass ==
    /\ name_pass \in {1, 3}
    /\ name_to_update.err = ""
    /\ name_to_update' = UpdateStreetDirection(name_to_update.val)
    /\ name_pass' = name_pass + 1
    /\ name_round1' = IF name_pass = 1 THEN name_to_update' ELSE name_round1
    /\ UNCHANGED street_in
    /\ UNCHANGED pipeVars
    /\ UNCHANGED keyVars

NextName == TypePass \/ DirectionPass

SpecName == InitName /\ [][NextName]_vars

(***************************************************************************)
(* The key count: process_map of the audit streams every element through   *)
(* key_type, which counts the keys of the tag elements by category.        *)
(***************************************************************************)
\* the category key_type counts the key k under
KeyCategory(k) ==
    IF lower_search(k) THEN "lower"
    ELSE IF lower_colon_search(k) THEN "lower_colon"
    ELSE IF problemchars_search(k) THEN "problemchars"
    ELSE "other"

\* keys[c] += 1
Increment(ks, c) == [ks EXCEPT ![c] = ks[c] + 1]

KeyMenu ==
    {"", "name", "addr:street", "gnis:county_name", "name.en",
     "addr:full address", "name\n", "addr:city\n", "FIXME", "name_1",
     "addr:street:name", "tiger:name_base_1"}

KeyElements ==
    {[tag |-> "tag", k |-> k] : k \in KeyMenu}
    \cup {[tag |-> "node", k |-> ""], [tag |-> "way", k |-> ""]}

KeyFiles == UNION {[1..n -> KeyElements] : n \in 0..MaxKeys}

InitKeys ==
    /\ key_file \in KeyFiles
    /\ key_parsed = 0
    /\ keys = [lower |-> 0, lower_colon |-> 0, problemchars |-> 0, other |-> 0]
    /\ key_pc = "parse"
    /\ file = <<>> /\ parsed = 0 /\ node = <<>> /\ address = <<>>
    /\ pc = "idle" /\ idx = 0 /\ err = "" /\ data = <<>> /\ sink = <<>>
    /\ street_in = "" /\ name_to_update = Ok("") /\ name_pass = 0
    /\ name_round1 = Ok("")

\* key_type on a tag element: one counter goes up
KeyType ==
    /\ key_pc = "parse"
    /\ key_parsed < Len(key_file)
    /\ key_file[key_parsed + 1].tag = "tag"
    /\ keys' = Increment(keys, KeyCategory(key_file[key_parsed + 1].k))
    /\ key_parsed' = key_parsed + 1
    /\ UNCHANGED <<key_file, key_pc>>
    /\ UNCHANGED pipeVars
    /\ UNCHANGED nameVars

\* key_type on any other element: keys is returned as it is
KeyTypeSkip ==
    /\ key_pc = "parse"
    /\ key_parsed < Len(key_file)
    /\ key_file[key_parsed + 1].tag # "tag"
    /\ key_parsed' = key_parsed + 1
    /\ UNCHANGED <<key_file, keys, key_pc>>
    /\ UNCHANGED pipeVars
    /\ UNCHANGED nameVars

\* iterparse is exhausted: process_map returns keys
KeysReturn ==
    /\ key_pc = "parse"
    /\ key_parsed = Len(key_file)
    /\ key_pc' = "done"
    /\ UNCHANGED <<key_file, key_parsed, keys>>
    /\ UNCHANGED pipeVars
    /\ UNCHANGED nameVars

NextKeys == KeyType \/ KeyTypeSkip \/ KeysReturn

SpecKeys == InitKeys /\ [][NextKeys]_vars

(***************************************************************************)
(* Properties.                                                             *)
(***************************************************************************)
\* the tag the tag loop is about to process
CurTag == element.tags[idx + 1]

\* the characters the specification lists as disallowed in a key
Disallowed ==
    {"=", "+", "/", "&", "<", ">", ";", "'", "\"", "?", "%", "#", "$",
     "@", ",", ".", " ", "\t", "\r", "\n"}

HasDisallowed(k) == \E i \in 1..Len(k) : Ch(k, i) \in Disallowed

\* key_type's category "other"
IsOther(k) ==
    ~lower_search(k) /\ ~lower_colon_search(k) /\ ~problemchars_search(k)

\* C1: a tag whose key contains a disallowed character adds no field to
\* the document: the loop iteration that handles it leaves node and the
\* address dictionary as they were, and raises nothing.
C1_ProblemKeyDropped ==
    [][(pc = "tags" /\ HasDisallowed(CurTag.k))
          => (node' = node /\ address' = address /\ pc' # "raised")]_vars

C1_Witness ==
    /\ pc = "done"
    /\ Len(data) = 1
    /\ \E i \in 1..Len(file[1].tags) : HasDisallowed(file[1].tags[i].k)
    /\ \E i \in 1..Len(file[1].tags) : ~HasDisallowed(file[1].tags[i].k)

\* C2 (as claimed): when shape_element returns, the document has an
\* address sub-document if and only if the address dictionary received at
\* least one field.
C2_AddressIffContributed ==
    pc = "return" =>
        (("address" \in DOMAIN node /\ node["address"].t = "dict")
            <=> address # EmptyDict)

\* a run of five digits of v
IsRun5(v, r) ==
    \E i \in 1..(Len(v) - 4) :
        /\ r = SubSeq(v, i, i + 4)
        /\ \A j \in i..(i + 4) : Ch(v, j) \in Digits

\* C3 (as claimed): after an addr:postcode tag whose value contains a run
\* of five digits the address holds that run as the postcode string; after
\* one whose value contains none the address has no postcode key.
C3_PostcodeExtracted ==
    [][(pc = "tags" /\ CurTag.k = "addr:postcode")
          => IF \E i \in 1..(Len(CurTag.v) - 4) :
                    IsRun5(CurTag.v, SubSeq(CurTag.v, i, i + 4))
             THEN /\ "postcode" \in DOMAIN address'
                  /\ address'["postcode"].t = "str"
                  /\ IsRun5(CurTag.v, address'["postcode"].s)
             ELSE "postcode" \notin DOMAIN address']_vars

\* the token a pass extracts is neither expected nor a key of its table
Unresolved(name, m, mapping, expected_strings) ==
    /\ m.found
    /\ Group(name, m) \notin expected_strings
    /\ Group(name, m) \notin DOMAIN mapping

\* C4 (as claimed): a pass whose extracted token has no rule and is not
\* expected returns the string unchanged and raises nothing.
C4_UnresolvedPassesThrough ==
    [][(/\ name_to_update.err = ""
        /\ \/ /\ name_pass \in {0, 2}
              /\ Unresolved(name_to_update.val,
                            street_type_re(name_to_update.val),
                            mapping_street_type, expected_names)
           \/ /\ name_pass \in {1, 3}
              /\ Unresolved(name_to_update.val,
                            street_direction_re(name_to_update.val),
                            mapping_street_direction, expected_directions))
          => name_to_update' = name_to_update]_vars

\* C5 (as claimed): a lat or lon that is not a number does not abort the
\* pass.
C5_BadNumberDoesNotAbort == ~(pc = "raised" /\ err = "ValueError")

HasAttr(e, a) == \E i \in 1..Len(e.attrib) : e.attrib[i][1] = a

\* C6 (as claimed): when shape_element returns, a pos list is present only
\* if the element has both lat and lon, and it then holds two floats.
C6_PosBothFloats ==
    (pc = "return" /\ "pos" \in DOMAIN node /\ node["pos"].t = "list") =>
        /\ HasAttr(element, "lat") /\ HasAttr(element, "lon")
        /\ Len(node["pos"].p) = 2
        /\ node["pos"].p[1].t = "float"
        /\ node["pos"].p[2].t = "float"

\* C7 (as claimed): every tag whose key is classified other is dropped.
C7_OtherKeyDropped ==
    [][(pc = "tags" /\ IsOther(CurTag.k))
          => (node' = node /\ address' = address /\ pc' # "raised")]_vars

\* C7 (amended): every tag whose key is classified other and contains a
\* namespace separator is dropped: the loop iteration that handles it
\* leaves node and the address dictionary as they were, and raises nothing.
C7_OtherColonKeyDropped ==
    [][(pc = "tags" /\ IsOther(CurTag.k)
          /\ \E i \in 1..Len(CurTag.k) : Ch(CurTag.k, i) = ":")
          => (node' = node /\ address' = address /\ pc' # "raised")]_vars

C7_Witness ==
    /\ pc = "done"
    /\ Len(data) = 1
    /\ \E i \in 1..Len(file[1].tags) :
          /\ IsOther(file[1].tags[i].k)
          /\ \E j \in 1..Len(file[1].tags[i].k) :
                Ch(file[1].tags[i].k, j) = ":"
    /\ \E i \in 1..Len(file[1].tags) : lower_search(file[1].tags[i].k)

\* the literal overrides: full street value, and the fields each one sets
OverrideFields ==
    {<<"Stewart Drive Suite #1",
       {<<"street", "Stewart Drive">>, <<"unit", "Suite #1">>}>>,
     <<"West Evelyn Avenue Suite #114",
       {<<"street", "West Evelyn Avenue">>, <<"unit", "Suite #114">>}>>,
     <<"Zanker Rd., San Jose, CA",
       {<<"street", "Zanker Road">>, <<"city", "San Jose">>,
        <<"state", "CA">>}>>,
     <<"Zanker Road, San Jose, CA",
       {<<"street", "Zanker Road">>, <<"city", "San Jose">>,
        <<"state", "CA">>}>>,
     <<"1425 E Dunne Ave",
       {<<"street", "East Dunne Avenue">>, <<"housenumber", "1425">>}>>}

\* C8: an addr:street tag whose value is a literal override writes exactly
\* the fields of that override into the address dictionary, whatever the
\* deny-list and the normalization would do with the value.
C8_OverrideWritesFields ==
    [][\A o \in OverrideFields :
          (pc = "tags" /\ CurTag.k = "addr:street" /\ CurTag.v = o[1])
             => /\ pc' # "raised"
                /\ DOMAIN address' = DOMAIN address \cup {f[1] : f \in o[2]}
                /\ \A f \in o[2] : address'[f[1]] = PStr(f[2])
                /\ \A x \in DOMAIN address \ {f[1] : f \in o[2]} :
                      address'[x] = address[x]]_vars

C8_Witness ==
    /\ pc = "done"
    /\ Len(data) = 1
    /\ file[1].tags = <<Tag("addr:street", "Stewart Drive Suite #1")>>
    /\ data[1]["address"].d =
          DictOf({<<"street", PStr("Stewart Drive")>>,
                  <<"unit", PStr("Suite #1")>>})

\* the node and way elements among the first n of the file
Eligible(n) ==
    SelectSeq(SubSeq(file, 1, n), LAMBDA e : e.tag \in {"node", "way"})

\* C9 (as claimed): whenever process_map is between elements, has returned
\* or has stopped, it has emitted one document for each node or way
\* element delivered so far and for no other, in the order of delivery,
\* to the returned list and to the sink alike.
C9_OneDocumentPerElement ==
    pc \in {"parse", "done", "raised"} =>
        /\ Len(data) = Len(Eligible(parsed))
        /\ sink = data
        /\ \A i \in 1..Len(data) :
              \A j \in 1..Len(Eligible(parsed)[i].attrib) :
                 Eligible(parsed)[i].attrib[j][1] = "id"
                    => data[i]["id"].s = Eligible(parsed)[i].attrib[j][2]

\* C10: when the street-type pass and the direction pass complete on a
\* string, the result ends in an expected street type (if the pattern
\* finds a token at all) and has no leading direction token, and applying
\* the two passes to the result returns it unchanged.
C10_NormalizationIdempotent ==
    /\ (name_pass = 2 /\ name_to_update.err = "") =>
          /\ street_type_re(name_to_update.val).found =>
                Group(name_to_update.val,
                      street_type_re(name_to_update.val)) \in expected_names
          /\ ~street_direction_re(name_to_update.val).found
    /\ (name_pass = 4 /\ name_to_update.err = "") =>
          name_to_update = name_round1

C10_Witness ==
    /\ name_pass = 4
    /\ name_to_update.err = ""
    /\ name_round1.val # street_in
    /\ street_direction_re(street_in).found

\* the key key_type is about to count
CurKey == key_file[key_parsed + 1].k

Counters == {"lower", "lower_colon", "problemchars", "other"}

\* C11 (as claimed): for the key of a tag element key_type raises exactly
\* one counter by one, the first of lower, lower_colon, problemchars whose
\* pattern matches the key, else other; and a key that contains a
\* disallowed character is counted under problemchars.
C11_KeyCountedOnce ==
    [][(key_pc = "parse" /\ key_parsed < Len(key_file)
          /\ key_file[key_parsed + 1].tag = "tag")
          => /\ \E c \in Counters :
                   /\ keys'[c] = keys[c] + 1
                   /\ \A o \in Counters \ {c} : keys'[o] = keys[o]
                   /\ c = "lower" <=> lower_search(CurKey)
                   /\ c = "lower_colon" <=>
                         (~lower_search(CurKey) /\ lower_colon_search(CurKey))
                   /\ c = "problemchars" <=>
                         (/\ ~lower_search(CurKey)
                          /\ ~lower_colon_search(CurKey)
                          /\ problemchars_search(CurKey))
             /\ HasDisallowed(CurKey) =>
                   keys'["problemchars"] = keys["problemchars"] + 1]_vars

\* C12 (as claimed): when shape_element returns, type is the element's tag
\* name, and created, pos and node_refs are the structures built from the
\* element's attributes and nd children, whatever its nested tags hold.
C12_StructuralFieldsKept ==
    pc = "return" =>
        /\ node["type"] = VStr(element.tag)
        /\ (\E a \in CREATED : HasAttr(element, a)) =>
              node["created"].t = "dict"
        /\ (HasAttr(element, "lat") \/ HasAttr(element, "lon")) =>
              node["pos"].t = "list"
        /\ element.nds # <<>> => node["node_refs"] = VList(element.nds)

====
